---- MODULE Spec2Model ----
(***************************************************************************)
(* A model of the call-lifecycle adapter of packages/grpc-transport        *)
(* (grpc-transport.ts): GrpcTransport.unary, serverStreaming and           *)
(* clientStreaming wire the events of one @grpc/grpc-js call to four       *)
(* Deferreds (header, message, status, trailer) or to an                   *)
(* RpcOutputStreamController.  Every listener is one action; the channel   *)
(* is the environment and may deliver any event, in any order, repeatedly. *)
(***************************************************************************)
EXTENDS Integers, Sequences, FiniteSets, TLC

VARIABLES
    calls,      \* call id -> the objects created by one unary/serverStreaming/clientStreaming invocation
    lastEvent,  \* history: the listener that ran last, and its argument
    threw,      \* history: whether that listener raised a failure (an assertion of runtime-rpc)
    quota,      \* how many more operations the environment makes; -1 when it makes any number
    codec,      \* a metadata mapping on its way through rpcMetaToGrpc and grpcMetaToRpc (SpecMeta)
    inStream    \* per call: what its GrpcInputStreamWrapper did to the channel, and the promises it returned

vars == <<calls, lastEvent, threw, quota, codec, inStream>>

\* ------------------------------------------------------------------ bounds

\* At most this many `data` events are delivered to one server-streaming call.
MaxData == 3

\* The caller of a client-streaming call sends at most this many messages and
\* completes at most this many times.
MaxSend == 1
MaxComplete == 1

\* A header of a generic metadata mapping holds at most this many values.
MaxValues == 2

\* With several calls in flight (SpecMulti) the environment makes this many operations.
MaxSteps == 5

\* The calls of the model; Spec drives one call, the others stay uninvoked.
CallIds == {"c1", "c2"}
SingleCall == {"c1"}

\* ------------------------------------------------------------------ values

\* Response payloads (instances of method.O).
Payloads == {"A", "B"}

\* GrpcStatus of @grpc/grpc-js: numeric code -> name (GrpcStatus[code]).
GrpcStatusNames ==
    << "OK", "CANCELLED", "UNKNOWN", "INVALID_ARGUMENT", "DEADLINE_EXCEEDED",
       "NOT_FOUND", "ALREADY_EXISTS", "PERMISSION_DENIED", "RESOURCE_EXHAUSTED",
       "FAILED_PRECONDITION", "ABORTED", "OUT_OF_RANGE", "UNIMPLEMENTED",
       "INTERNAL", "UNAVAILABLE", "DATA_LOSS", "UNAUTHENTICATED" >>

GrpcStatus(code) == GrpcStatusNames[code + 1]

GrpcStatus_OK == 0
GrpcStatus_DATA_LOSS == 15

\* A grpc-js Metadata object: header key -> the values added for it, in order.
MdNone == [k \in {} |-> <<>>]
MdOne == [k \in {"x-id"} |-> <<"1">>]
GrpcMetas == {MdNone, MdOne}

\* Metadata.toHttp2Headers(): every key maps to the array of its values.
toHttp2Headers(md) == [k \in DOMAIN md |-> [kind |-> "array", items |-> md[k]]]

\* Mutant of grpcMetaToRpc: only the first value of a header is kept.
grpcMetaToRpc_FirstOnly(from) ==
    LET h2 == toHttp2Headers(from)
        keys == {k \in DOMAIN h2 : h2[k].kind # "undefined"}
    IN  [k \in keys |-> [isList |-> TRUE, items |-> SubSeq(h2[k].items, 1, 1)]]

\* A value of RpcMetadata is a string or a string[]: isList tells which.
\* grpcMetaToRpc copies every defined header; a number becomes its string form.
grpcMetaToRpc(from) ==
    LET h2 == toHttp2Headers(from)
        keys == {k \in DOMAIN h2 : h2[k].kind # "undefined"}
    IN  [k \in keys |->
            IF h2[k].kind \in {"number", "string"}
            THEN [isList |-> FALSE, items |-> h2[k].items]
            ELSE [isList |-> TRUE, items |-> h2[k].items]]

EmptyRpcMeta == [k \in {} |-> [isList |-> FALSE, items |-> <<>>]]

\* Header names and values of the generic metadata mappings that are encoded.
MetaKeys == {"X-Id", "x-id", "k"}
MetaStrings == {"1", "2"}

\* Object.keys(from): the keys of the mapping, in the order they were inserted.
KeyOrder == <<"X-Id", "x-id", "k">>
ObjectKeys(from) == SelectSeq(KeyOrder, LAMBDA k : k \in DOMAIN from)

\* Metadata.add(key, value) of grpc-js: the key is lower-cased, the value is
\* appended to the values the key already has.
normalizeKey(key) == IF key = "X-Id" THEN "x-id" ELSE key

MetadataAdd(to, key, value) ==
    LET k == normalizeKey(key)
    IN  IF k \in DOMAIN to
        THEN [to EXCEPT ![k] = Append(@, value)]
        ELSE [x \in DOMAIN to \cup {k} |-> IF x = k THEN <<value>> ELSE to[x]]

\* for (let vv of v) to.add(k, vv)
RECURSIVE AddEach(_, _, _)
AddEach(to, k, v) ==
    IF v = <<>> THEN to ELSE AddEach(MetadataAdd(to, k, Head(v)), k, Tail(v))

\* The loop of rpcMetaToGrpc over the keys still to do.
RECURSIVE AddKeys(_, _, _)
AddKeys(to, from, keys) ==
    IF keys = <<>>
    THEN to
    ELSE LET k == Head(keys)
             v == from[k]
         IN  AddKeys(IF ~v.isList THEN MetadataAdd(to, k, v.items[1]) ELSE AddEach(to, k, v.items),
                     from, Tail(keys))

rpcMetaToGrpc(from, base) == AddKeys(base, from, ObjectKeys(from))

\* The generic metadata values: a string, or a non-empty collection of strings.
RpcMetaValues ==
    {[isList |-> FALSE, items |-> <<x>>] : x \in MetaStrings}
    \cup {[isList |-> TRUE, items |-> l] :
            l \in UNION {[1..n -> MetaStrings] : n \in 1..MaxValues}}

RpcMetas == UNION {[K -> RpcMetaValues] : K \in SUBSET MetaKeys}

NoCodec == [stage |-> "none", from |-> EmptyRpcMeta, to |-> MdNone, back |-> EmptyRpcMeta]

\* RpcError(message, code = 'UNKNOWN', meta = {}).
RpcError(message, code, meta) == [message |-> message, code |-> code, meta |-> meta]

\* Errors the channel hands over: props are the own properties of the value.
ServiceErrorProps == {"code", "details", "metadata", "name", "message"}

SvcError(code, message, md) ==
    [props |-> ServiceErrorProps, code |-> code, details |-> message,
     metadata |-> md, name |-> "Error", message |-> message]

PlainError(message) ==
    [props |-> {"name", "message"}, code |-> 2, details |-> "",
     metadata |-> MdNone, name |-> "Error", message |-> message]

\* The completion callback's err is a ServiceError; an `error` event may carry any Error.
CallbackErrors == {SvcError(14, "unavailable", MdNone), SvcError(1, "cancelled", MdOne)}
StreamErrors == {SvcError(1, "cancelled", MdOne), PlainError("socket hang up")}

isServiceError(arg) == ServiceErrorProps \subseteq arg.props

\* The val of a `status` event: StatusObject {code, details, metadata}.
StatusVals ==
    { [code |-> 0, details |-> "", metadata |-> MdNone],
      [code |-> 5, details |-> "not found", metadata |-> MdOne],
      [code |-> 14, details |-> "unavailable", metadata |-> MdNone] }

\* ------------------------------------------------------------------ Deferred

\* new Deferred(): pending, no value, no rejection reason.
NewDeferred == [state |-> "PENDING", value |-> <<>>, reason |-> <<>>]

\* Deferred.resolve / reject assert that the Deferred is pending.
DeferredAssertFails(d) == d.state # "PENDING"

resolve(d, v) ==
    IF d.state = "PENDING"
    THEN [state |-> "RESOLVED", value |-> <<v>>, reason |-> <<>>]
    ELSE d

reject(d, e) ==
    IF d.state = "PENDING"
    THEN [state |-> "REJECTED", value |-> <<>>, reason |-> <<e>>]
    ELSE d

resolvePending(d, v) == IF d.state = "PENDING" THEN resolve(d, v) ELSE d

rejectPending(d, e) == IF d.state = "PENDING" THEN reject(d, e) ELSE d

\* ------------------------------------------------------------------ RpcOutputStreamController

\* closed is "open", "complete" (notifyComplete) or "error" (notifyError, err holds it).
NewOutStream == [items |-> <<>>, closed |-> "open", err |-> <<>>]

StreamClosed(s) == s.closed # "open"

\* notifyMessage / notifyError / notifyComplete assert that the stream is not closed.
notifyMessage(s, m) == IF StreamClosed(s) THEN s ELSE [s EXCEPT !.items = Append(@, m)]

notifyError(s, e) ==
    IF StreamClosed(s) THEN s ELSE [s EXCEPT !.closed = "error", !.err = <<e>>]

notifyComplete(s) == IF StreamClosed(s) THEN s ELSE [s EXCEPT !.closed = "complete"]

\* ------------------------------------------------------------------ calls
\* GrpcInputStreamWrapper over the call's writable side (inner): written and
\* nEnd are the write(message, callback) and end() calls the channel got,
\* sendPromises and completePromises the promises send and complete returned.
NewInStream == [written |-> <<>>, sendPromises |-> <<>>, nEnd |-> 0, completePromises |-> <<>>]

\* Mutant of send: the promise is resolved without waiting for the channel.
send_ResolvesAtOnce(s, message) ==
    [s EXCEPT !.written = Append(@, message), !.sendPromises = Append(@, "RESOLVED")]

\* send: new Promise((resolve, reject) => { this.inner.write(message, resolve) })
send(s, message) ==
    [s EXCEPT !.written = Append(@, message), !.sendPromises = Append(@, "PENDING")]

\* The channel calls the callback of the i-th write, with an error or without:
\* the callback is the promise's resolve, and resolving twice changes nothing.
writeCallback(s, i, err) == [s EXCEPT !.sendPromises[i] = "RESOLVED"]

\* complete: this.inner.end(); return Promise.resolve(undefined)
complete(s) == [s EXCEPT !.nEnd = @ + 1, !.completePromises = Append(@, "RESOLVED")]

NoCall ==
    [shape |-> "none", hasAbort |-> FALSE, cancelRequested |-> FALSE,
     defHeader |-> NewDeferred, defMessage |-> NewDeferred,
     defStatus |-> NewDeferred, defTrailer |-> NewDeferred,
     outStream |-> NewOutStream, dataLog |-> <<>>, metaSeen |-> FALSE, nStatus |-> 0]

NewCall(shape, abort) == [NoCall EXCEPT !.shape = shape, !.hasAbort = abort]

Ev(c, kind, code, msg) == [call |-> c, kind |-> kind, code |-> code, msg |-> msg]

NoEvent == Ev("", "none", -1, "")

Init ==
    /\ calls = [c \in CallIds |-> NoCall]
    /\ lastEvent = NoEvent
    /\ threw = FALSE
    /\ quota = -1
    /\ codec = NoCodec
    /\ inStream = [c \in CallIds |-> NewInStream]


\* A listener's outcome: the call's objects afterwards, and whether it raised.
Outcome(k, failed) == [call |-> k, threw |-> failed]

\* ------------------------------------------------------------------ unary listeners

\* Mutant of unaryCallback: the error branch forgets the header Deferred.
unaryCallback_NoHeader(k, err, value) ==
    LET failed == value # <<>> /\ DeferredAssertFails(k.defMessage)
        k1 == IF value # <<>>
              THEN [k EXCEPT !.defMessage = resolve(@, value[1])]
              ELSE k
        e == RpcError(err[1].message, GrpcStatus(err[1].code), grpcMetaToRpc(err[1].metadata))
        k2 == IF err # <<>> /\ ~failed
              THEN [k1 EXCEPT !.defMessage = rejectPending(@, e),
                              !.defStatus = rejectPending(@, e),
                              !.defTrailer = rejectPending(@, e)]
              ELSE k1
    IN  Outcome(k2, failed)

\* The completion callback (err, value) of client.makeUnaryRequest.
unaryCallback(k, err, value) ==
    LET failed == value # <<>> /\ DeferredAssertFails(k.defMessage)
        k1 == IF value # <<>>
              THEN [k EXCEPT !.defMessage = resolve(@, value[1])]
              ELSE k
        e == RpcError(err[1].message, GrpcStatus(err[1].code), grpcMetaToRpc(err[1].metadata))
        k2 == IF err # <<>> /\ ~failed
              THEN [k1 EXCEPT !.defHeader = rejectPending(@, e),
                              !.defMessage = rejectPending(@, e),
                              !.defStatus = rejectPending(@, e),
                              !.defTrailer = rejectPending(@, e)]
              ELSE k1
    IN  Outcome(k2, failed)

\* Mutant of unaryOnAbort: the abort listener itself rejects what is pending.
unaryOnAbort_Rejects(k) ==
    LET e == RpcError("aborted", "CANCELLED", EmptyRpcMeta)
    IN  Outcome([k EXCEPT !.cancelRequested = TRUE,
                          !.defHeader = rejectPending(@, e),
                          !.defMessage = rejectPending(@, e),
                          !.defStatus = rejectPending(@, e),
                          !.defTrailer = rejectPending(@, e)], FALSE)

\* opt.abort's 'abort' listener: gCall.cancel().
unaryOnAbort(k) == Outcome([k EXCEPT !.cancelRequested = TRUE], FALSE)

\* gCall 'metadata' listener.
unaryOnMetadata(k, val) ==
    Outcome([k EXCEPT !.defHeader = resolve(@, grpcMetaToRpc(val))],
            DeferredAssertFails(k.defHeader))
\* Mutant of unaryOnStatus: a status that is not OK rejects status and trailer.
unaryOnStatus_RejectsNonOk(k, val) ==
    IF k.defMessage.state = "PENDING" /\ val.code = GrpcStatus_OK
    THEN LET e == RpcError("expected error status", GrpcStatus(GrpcStatus_DATA_LOSS), EmptyRpcMeta)
         IN  Outcome([k EXCEPT !.defMessage = rejectPending(@, e),
                               !.defStatus = rejectPending(@, e),
                               !.defTrailer = rejectPending(@, e)], FALSE)
    ELSE IF val.code # GrpcStatus_OK
    THEN LET e == RpcError(val.details, GrpcStatus(val.code), grpcMetaToRpc(val.metadata))
         IN  Outcome([k EXCEPT !.defStatus = rejectPending(@, e),
                               !.defTrailer = rejectPending(@, e)], FALSE)
    ELSE Outcome([k EXCEPT !.defStatus = resolvePending(@, [code |-> GrpcStatus(val.code),
                                                            detail |-> val.details]),
                           !.defTrailer = resolvePending(@, grpcMetaToRpc(val.metadata))],
                 FALSE)

\* Mutant of unaryOnStatus: an OK status that finds the message pending is left
\* for the completion callback to deal with.
unaryOnStatus_WaitsForMessage(k, val) ==
    IF k.defMessage.state = "PENDING" /\ val.code = GrpcStatus_OK
    THEN Outcome(k, FALSE)
    ELSE Outcome([k EXCEPT !.defStatus = resolvePending(@, [code |-> GrpcStatus(val.code),
                                                            detail |-> val.details]),
                           !.defTrailer = resolvePending(@, grpcMetaToRpc(val.metadata))],
                 FALSE)

\* Mutant of unaryOnStatus: the success branch forgets the trailer Deferred.
unaryOnStatus_StatusOnly(k, val) ==
    IF k.defMessage.state = "PENDING" /\ val.code = GrpcStatus_OK
    THEN LET e == RpcError("expected error status", GrpcStatus(GrpcStatus_DATA_LOSS), EmptyRpcMeta)
         IN  Outcome([k EXCEPT !.defMessage = rejectPending(@, e),
                               !.defStatus = rejectPending(@, e),
                               !.defTrailer = rejectPending(@, e)], FALSE)
    ELSE Outcome([k EXCEPT !.defStatus = resolvePending(@, [code |-> GrpcStatus(val.code),
                                                            detail |-> val.details])],
                 FALSE)

\* Mutant of unaryOnStatus: no check for a success status without a payload.
unaryOnStatus_NoPayloadCheck(k, val) ==
    Outcome([k EXCEPT !.defStatus = resolvePending(@, [code |-> GrpcStatus(val.code),
                                                       detail |-> val.details]),
                      !.defTrailer = resolvePending(@, grpcMetaToRpc(val.metadata))],
            FALSE)

\* gCall 'status' listener.
unaryOnStatus(k, val) ==
    IF k.defMessage.state = "PENDING" /\ val.code = GrpcStatus_OK
    THEN LET e == RpcError("expected error status", GrpcStatus(GrpcStatus_DATA_LOSS), EmptyRpcMeta)
         IN  Outcome([k EXCEPT !.defMessage = rejectPending(@, e),
                               !.defStatus = rejectPending(@, e),
                               !.defTrailer = rejectPending(@, e)], FALSE)
    ELSE Outcome([k EXCEPT !.defStatus = resolvePending(@, [code |-> GrpcStatus(val.code),
                                                            detail |-> val.details]),
                           !.defTrailer = resolvePending(@, grpcMetaToRpc(val.metadata))],
                 FALSE)

\* ------------------------------------------------------------------ serverStreaming listeners

\* method.O.is(arg): the channel's deserializer is method.O.fromBinary.
MethodO_is(arg) == arg \in Payloads

serverStreamingOnAbort(k) == Outcome([k EXCEPT !.cancelRequested = TRUE], FALSE)
\* Mutant of serverStreamingOnError: every error is taken for an unknown one.
serverStreamingOnError_Unclassified(k, err) ==
    LET e == RpcError(err.message, "UNKNOWN", EmptyRpcMeta)
    IN  Outcome([k EXCEPT !.defHeader = rejectPending(@, e),
                          !.outStream = IF ~StreamClosed(@) THEN notifyError(@, e) ELSE @,
                          !.defStatus = rejectPending(@, e),
                          !.defTrailer = rejectPending(@, e)], FALSE)

\* Mutant of serverStreamingOnError: the header Deferred is not rejected.
serverStreamingOnError_NoHeader(k, err) ==
    LET e == IF isServiceError(err)
             THEN RpcError(err.message, GrpcStatus(err.code), grpcMetaToRpc(err.metadata))
             ELSE RpcError(err.message, "UNKNOWN", EmptyRpcMeta)
    IN  Outcome([k EXCEPT !.outStream = IF ~StreamClosed(@) THEN notifyError(@, e) ELSE @,
                          !.defStatus = rejectPending(@, e),
                          !.defTrailer = rejectPending(@, e)], FALSE)

\* gCall 'error' listener.
serverStreamingOnError(k, err) ==
    LET e == IF isServiceError(err)
             THEN RpcError(err.message, GrpcStatus(err.code), grpcMetaToRpc(err.metadata))
             ELSE RpcError(err.message, "UNKNOWN", EmptyRpcMeta)
    IN  Outcome([k EXCEPT !.defHeader = rejectPending(@, e),
                          !.outStream = IF ~StreamClosed(@) THEN notifyError(@, e) ELSE @,
                          !.defStatus = rejectPending(@, e),
                          !.defTrailer = rejectPending(@, e)], FALSE)

\* Mutant of serverStreamingOnEnd: notifyComplete without looking at outStream.closed.
serverStreamingOnEnd_Unguarded(k) ==
    Outcome([k EXCEPT !.outStream = notifyComplete(@)], StreamClosed(k.outStream))

\* gCall 'end' listener.
serverStreamingOnEnd(k) ==
    Outcome([k EXCEPT !.outStream = IF ~StreamClosed(@) THEN notifyComplete(@) ELSE @], FALSE)

\* Mutant of serverStreamingOnData: a payload equal to the one pushed last is dropped.
serverStreamingOnData_DropRepeat(k, arg1) ==
    IF ~MethodO_is(arg1)
    THEN Outcome(k, TRUE)
    ELSE IF k.outStream.items # <<>> /\ k.outStream.items[Len(k.outStream.items)] = arg1
         THEN Outcome(k, StreamClosed(k.outStream))
         ELSE Outcome([k EXCEPT !.outStream = notifyMessage(@, arg1)], StreamClosed(k.outStream))

\* gCall 'data' listener: assert(method.O.is(arg1)); outStream.notifyMessage(arg1).
serverStreamingOnData(k, arg1) ==
    IF ~MethodO_is(arg1)
    THEN Outcome(k, TRUE)
    ELSE Outcome([k EXCEPT !.outStream = notifyMessage(@, arg1)], StreamClosed(k.outStream))

\* gCall 'metadata' listener.
serverStreamingOnMetadata(k, val) ==
    Outcome([k EXCEPT !.defHeader = resolve(@, grpcMetaToRpc(val))],
            DeferredAssertFails(k.defHeader))
\* Mutant of serverStreamingOnStatus: OK without a message is a DATA_LOSS, as in a unary call.
serverStreamingOnStatus_RequiresData(k, val) ==
    IF val.code = GrpcStatus_OK /\ k.dataLog = <<>>
    THEN LET e == RpcError("expected error status", "DATA_LOSS", EmptyRpcMeta)
         IN  Outcome([k EXCEPT !.defStatus = rejectPending(@, e),
                               !.defTrailer = rejectPending(@, e)], FALSE)
    ELSE Outcome([k EXCEPT !.defStatus = resolvePending(@, [code |-> GrpcStatus(val.code),
                                                            detail |-> val.details]),
                           !.defTrailer = resolvePending(@, grpcMetaToRpc(val.metadata))],
                 FALSE)

\* Mutant of serverStreamingOnStatus: status and trailer are set whatever their state.
serverStreamingOnStatus_Overwrite(k, val) ==
    Outcome([k EXCEPT !.defStatus = resolve(NewDeferred, [code |-> GrpcStatus(val.code),
                                                          detail |-> val.details]),
                      !.defTrailer = resolve(NewDeferred, grpcMetaToRpc(val.metadata))],
            FALSE)

\* gCall 'status' listener.
serverStreamingOnStatus(k, val) ==
    Outcome([k EXCEPT !.defStatus = resolvePending(@, [code |-> GrpcStatus(val.code),
                                                       detail |-> val.details]),
                      !.defTrailer = resolvePending(@, grpcMetaToRpc(val.metadata))],
            FALSE)

\* ------------------------------------------------------------------ clientStreaming listeners

\* The completion callback (err, value) of client.makeClientStreamRequest.
clientStreamingCallback(k, err, value) ==
    LET failed == value # <<>> /\ DeferredAssertFails(k.defMessage)
        k1 == IF value # <<>>
              THEN [k EXCEPT !.defMessage = resolve(@, value[1])]
              ELSE k
        e == RpcError(err[1].message, GrpcStatus(err[1].code), grpcMetaToRpc(err[1].metadata))
        k2 == IF err # <<>> /\ ~failed
              THEN [k1 EXCEPT !.defHeader = rejectPending(@, e),
                              !.defMessage = rejectPending(@, e),
                              !.defStatus = rejectPending(@, e),
                              !.defTrailer = rejectPending(@, e)]
              ELSE k1
    IN  Outcome(k2, failed)

clientStreamingOnAbort(k) == Outcome([k EXCEPT !.cancelRequested = TRUE], FALSE)

\* gCall 'metadata' listener.
clientStreamingOnMetadata(k, val) ==
    Outcome([k EXCEPT !.defHeader = resolve(@, grpcMetaToRpc(val))],
            DeferredAssertFails(k.defHeader))

\* gCall 'status' listener.
clientStreamingOnStatus(k, val) ==
    Outcome([k EXCEPT !.defStatus = resolvePending(@, [code |-> GrpcStatus(val.code),
                                                       detail |-> val.details]),
                      !.defTrailer = resolvePending(@, grpcMetaToRpc(val.metadata))],
            FALSE)

\* ------------------------------------------------------------------ duplex

\* Mutant of duplex: the call's objects are created before the failure.
duplex_OpensCall(k, abort) == Outcome(NewCall("clientStreaming", abort), TRUE)

\* duplex(method, options): throw new Error("NOT IMPLEMENTED"), whatever the options.
duplex(k, abort) == Outcome(k, TRUE)

\* ------------------------------------------------------------------ actions

\* The arguments the channel gives a completion callback: an error or a value.
CallbackArgs ==
    {<<(<<e>>), (<<>>)>> : e \in CallbackErrors} \cup {<<(<<>>), (<<v>>)>> : v \in Payloads}

\* History kept beside the call's objects: dataLog is every payload a `data` event
\* carried, metaSeen whether a `metadata` event was delivered, nStatus how many
\* `status` events were (0, 1, or 2 for two and more).
SawMetadata(r) == Outcome([r.call EXCEPT !.metaSeen = TRUE], r.threw)

SawStatus(r) == Outcome([r.call EXCEPT !.nStatus = IF @ < 2 THEN @ + 1 ELSE @], r.threw)

SawData(r, arg1) == Outcome([r.call EXCEPT !.dataLog = Append(@, arg1)], r.threw)

\* Mutant of Deliver: calls of one shape share their Deferreds and stream.
Deliver_Shared(c, r, ev) ==
    /\ quota # 0
    /\ quota' = IF quota > 0 THEN quota - 1 ELSE quota
    /\ calls' = [x \in CallIds |-> IF x = c \/ calls[x].shape = r.call.shape THEN r.call ELSE calls[x]]
    /\ threw' = r.threw
    /\ lastEvent' = ev
    /\ codec' = codec
    /\ inStream' = inStream

\* One operation ran on call c with outcome r; ev names it.
Deliver(c, r, ev) ==
    /\ quota # 0
    /\ quota' = IF quota > 0 THEN quota - 1 ELSE quota
    /\ calls' = [calls EXCEPT ![c] = r.call]
    /\ threw' = r.threw
    /\ lastEvent' = ev
    /\ codec' = codec
    /\ inStream' = inStream

\* transport.unary(method, input, options): the objects of lines 94-105, nothing settled.
Unary(c) ==
    /\ calls[c].shape = "none"
    /\ \E abort \in BOOLEAN :
          Deliver(c, Outcome(NewCall("unary", abort), FALSE), Ev(c, "unary", -1, ""))

ServerStreaming(c) ==
    /\ calls[c].shape = "none"
    /\ \E abort \in BOOLEAN :
          Deliver(c, Outcome(NewCall("serverStreaming", abort), FALSE),
                  Ev(c, "serverStreaming", -1, ""))

ClientStreaming(c) ==
    /\ calls[c].shape = "none"
    /\ \E abort \in BOOLEAN :
          Deliver(c, Outcome(NewCall("clientStreaming", abort), FALSE),
                  Ev(c, "clientStreaming", -1, ""))

UnaryCallback(c) ==
    /\ calls[c].shape = "unary"
    /\ \E a \in CallbackArgs :
          Deliver(c, unaryCallback(calls[c], a[1], a[2]),
                  IF a[1] # <<>> THEN Ev(c, "callbackError", a[1][1].code, a[1][1].message)
                                 ELSE Ev(c, "callbackValue", -1, a[2][1]))

UnaryAbort(c) ==
    /\ calls[c].shape = "unary"
    /\ calls[c].hasAbort
    /\ ~calls[c].cancelRequested
    /\ Deliver(c, unaryOnAbort(calls[c]), Ev(c, "abort", -1, ""))

UnaryMetadata(c) ==
    /\ calls[c].shape = "unary"
    /\ \E val \in GrpcMetas :
          Deliver(c, SawMetadata(unaryOnMetadata(calls[c], val)), Ev(c, "metadata", -1, ""))

UnaryStatus(c) ==
    /\ calls[c].shape = "unary"
    /\ \E val \in StatusVals :
          Deliver(c, SawStatus(unaryOnStatus(calls[c], val)), Ev(c, "status", val.code, val.details))

ServerStreamingAbort(c) ==
    /\ calls[c].shape = "serverStreaming"
    /\ calls[c].hasAbort
    /\ ~calls[c].cancelRequested
    /\ Deliver(c, serverStreamingOnAbort(calls[c]), Ev(c, "abort", -1, ""))

ServerStreamingError(c) ==
    /\ calls[c].shape = "serverStreaming"
    /\ \E err \in StreamErrors :
          Deliver(c, serverStreamingOnError(calls[c], err), Ev(c, "error", err.code, err.message))

ServerStreamingEnd(c) ==
    /\ calls[c].shape = "serverStreaming"
    /\ Deliver(c, serverStreamingOnEnd(calls[c]), Ev(c, "end", -1, ""))

ServerStreamingData(c) ==
    /\ calls[c].shape = "serverStreaming"
    /\ Len(calls[c].dataLog) < MaxData
    /\ \E arg1 \in Payloads :
          Deliver(c, SawData(serverStreamingOnData(calls[c], arg1), arg1),
                  Ev(c, "data", -1, arg1))

ServerStreamingMetadata(c) ==
    /\ calls[c].shape = "serverStreaming"
    /\ \E val \in GrpcMetas :
          Deliver(c, SawMetadata(serverStreamingOnMetadata(calls[c], val)), Ev(c, "metadata", -1, ""))

ServerStreamingStatus(c) ==
    /\ calls[c].shape = "serverStreaming"
    /\ \E val \in StatusVals :
          Deliver(c, SawStatus(serverStreamingOnStatus(calls[c], val)),
                  Ev(c, "status", val.code, val.details))

ClientStreamingCallback(c) ==
    /\ calls[c].shape = "clientStreaming"
    /\ \E a \in CallbackArgs :
          Deliver(c, clientStreamingCallback(calls[c], a[1], a[2]),
                  IF a[1] # <<>> THEN Ev(c, "callbackError", a[1][1].code, a[1][1].message)
                                 ELSE Ev(c, "callbackValue", -1, a[2][1]))

ClientStreamingAbort(c) ==
    /\ calls[c].shape = "clientStreaming"
    /\ calls[c].hasAbort
    /\ ~calls[c].cancelRequested
    /\ Deliver(c, clientStreamingOnAbort(calls[c]), Ev(c, "abort", -1, ""))

ClientStreamingMetadata(c) ==
    /\ calls[c].shape = "clientStreaming"
    /\ \E val \in GrpcMetas :
          Deliver(c, SawMetadata(clientStreamingOnMetadata(calls[c], val)), Ev(c, "metadata", -1, ""))

ClientStreamingStatus(c) ==
    /\ calls[c].shape = "clientStreaming"
    /\ \E val \in StatusVals :
          Deliver(c, SawStatus(clientStreamingOnStatus(calls[c], val)),
                  Ev(c, "status", val.code, val.details))

Duplex(c) ==
    /\ calls[c].shape = "none"
    /\ \E abort \in BOOLEAN :
          Deliver(c, duplex(calls[c], abort), Ev(c, "duplex", -1, ""))

Step(c) ==
    \/ Unary(c)
    \/ ServerStreaming(c)
    \/ ClientStreaming(c)
    \/ UnaryCallback(c)
    \/ UnaryAbort(c)
    \/ UnaryMetadata(c)
    \/ UnaryStatus(c)
    \/ ServerStreamingAbort(c)
    \/ ServerStreamingError(c)
    \/ ServerStreamingEnd(c)
    \/ ServerStreamingData(c)
    \/ ServerStreamingMetadata(c)
    \/ ServerStreamingStatus(c)
    \/ ClientStreamingCallback(c)
    \/ ClientStreamingAbort(c)
    \/ ClientStreamingMetadata(c)
    \/ ClientStreamingStatus(c)
    \/ Duplex(c)

Next == \E c \in SingleCall : Step(c)

Spec == Init /\ [][Next]_vars
\* The caller drives the input stream of a client-streaming call, and the channel
\* acknowledges its writes.
InputStep(c, s, ev) ==
    /\ inStream' = [inStream EXCEPT ![c] = s]
    /\ lastEvent' = ev
    /\ threw' = FALSE
    /\ UNCHANGED <<calls, quota, codec>>

Send(c) ==
    /\ calls[c].shape = "clientStreaming"
    /\ Len(inStream[c].written) < MaxSend
    /\ \E message \in Payloads : InputStep(c, send(inStream[c], message), Ev(c, "send", -1, message))

WriteAck(c) ==
    /\ calls[c].shape = "clientStreaming"
    /\ \E i \in 1..Len(inStream[c].written), err \in BOOLEAN :
          InputStep(c, writeCallback(inStream[c], i, err), Ev(c, "writeAck", i, ""))

Complete(c) ==
    /\ calls[c].shape = "clientStreaming"
    /\ inStream[c].nEnd < MaxComplete
    /\ InputStep(c, complete(inStream[c]), Ev(c, "complete", -1, ""))

NextInput ==
    \E c \in SingleCall :
        \/ ClientStreaming(c)
        \/ ClientStreamingCallback(c)
        \/ ClientStreamingAbort(c)
        \/ ClientStreamingMetadata(c)
        \/ ClientStreamingStatus(c)
        \/ Send(c)
        \/ WriteAck(c)
        \/ Complete(c)

SpecInput == Init /\ [][NextInput]_vars

\* The metadata codec alone: a mapping is encoded for the channel, then decoded.
InitMeta ==
    /\ calls = [c \in CallIds |-> NoCall]
    /\ lastEvent = NoEvent
    /\ threw = FALSE
    /\ quota = -1
    /\ \E m \in RpcMetas : codec = [NoCodec EXCEPT !.stage = "input", !.from = m]
    /\ inStream = [c \in CallIds |-> NewInStream]

Encode ==
    /\ codec.stage = "input"
    /\ codec' = [codec EXCEPT !.stage = "encoded", !.to = rpcMetaToGrpc(codec.from, MdNone)]
    /\ UNCHANGED <<calls, lastEvent, threw, quota, inStream>>

Decode ==
    /\ codec.stage = "encoded"
    /\ codec' = [codec EXCEPT !.stage = "decoded", !.back = grpcMetaToRpc(codec.to)]
    /\ UNCHANGED <<calls, lastEvent, threw, quota, inStream>>

NextMeta == Encode \/ Decode

SpecMeta == InitMeta /\ [][NextMeta]_vars

\* Several calls in flight at once: their operations interleave in any order.
InitMulti ==
    /\ calls = [c \in CallIds |-> NoCall]
    /\ lastEvent = NoEvent
    /\ threw = FALSE
    /\ quota = MaxSteps
    /\ codec = NoCodec
    /\ inStream = [c \in CallIds |-> NewInStream]

NextMulti == \E c \in CallIds : Step(c)

SpecMulti == InitMulti /\ [][NextMulti]_vars


\* ------------------------------------------------------------------ properties

Settled(d) == d.state # "PENDING"

RejectedWith(d, e) == d.state = "REJECTED" /\ d.reason = <<e>>

\* The error unary status synthesizes for a success status without a payload.
DataLossError == RpcError("expected error status", "DATA_LOSS", EmptyRpcMeta)

\* The listener that ran in this step is the `kind` listener of call c.
Ran(c, kind) == lastEvent'.call = c /\ lastEvent'.kind = kind

\* C1: in every call shape, after every listener the status Deferred and the
\* trailer Deferred are in the same state: both pending, both resolved, or both
\* rejected with the same error.
C1_StatusTrailerTogether ==
    \A c \in CallIds :
        /\ calls[c].defStatus.state = calls[c].defTrailer.state
        /\ calls[c].defStatus.reason = calls[c].defTrailer.reason

\* C1 witness: a `status` event of a unary call resolved status and trailer.
C1_Witness ==
    \E c \in CallIds :
        /\ lastEvent.kind = "status"
        /\ lastEvent.call = c
        /\ calls[c].shape = "unary"
        /\ calls[c].defStatus.state = "RESOLVED"
        /\ calls[c].defTrailer.state = "RESOLVED"

\* C2 as stated: a unary `status` event with code OK delivered while message is
\* pending leaves message, status and trailer all rejected with the DATA_LOSS
\* error and does not touch header.
C2_Original ==
    [][\A c \in CallIds :
          (/\ Ran(c, "status")
           /\ calls[c].shape = "unary"
           /\ lastEvent'.code = GrpcStatus_OK
           /\ calls[c].defMessage.state = "PENDING")
          => /\ RejectedWith(calls'[c].defMessage, DataLossError)
             /\ RejectedWith(calls'[c].defStatus, DataLossError)
             /\ RejectedWith(calls'[c].defTrailer, DataLossError)
             /\ calls'[c].defHeader = calls[c].defHeader]_vars

\* C2 amended: such an event rejects message with the DATA_LOSS error, rejects
\* status and trailer with that same error when they are still pending and leaves
\* them as they are otherwise, never leaves status resolved as OK, raises no
\* failure and does not touch header.
C2_Amended ==
    [][\A c \in CallIds :
          (/\ Ran(c, "status")
           /\ calls[c].shape = "unary"
           /\ lastEvent'.code = GrpcStatus_OK
           /\ calls[c].defMessage.state = "PENDING")
          => /\ RejectedWith(calls'[c].defMessage, DataLossError)
             /\ IF Settled(calls[c].defStatus)
                THEN calls'[c].defStatus = calls[c].defStatus
                ELSE RejectedWith(calls'[c].defStatus, DataLossError)
             /\ IF Settled(calls[c].defTrailer)
                THEN calls'[c].defTrailer = calls[c].defTrailer
                ELSE RejectedWith(calls'[c].defTrailer, DataLossError)
             /\ ~(/\ calls'[c].defStatus.state = "RESOLVED"
                  /\ calls'[c].defStatus.value[1].code = "OK")
             /\ calls'[c].defHeader = calls[c].defHeader
             /\ threw' = FALSE]_vars

\* C2 witness: `metadata` then `status` OK without a payload: header resolved,
\* the other three rejected with the DATA_LOSS error.
C2_Witness ==
    \E c \in CallIds :
        /\ calls[c].shape = "unary"
        /\ lastEvent = Ev(c, "status", GrpcStatus_OK, "")
        /\ calls[c].nStatus = 1
        /\ calls[c].defHeader.state = "RESOLVED"
        /\ RejectedWith(calls[c].defMessage, DataLossError)
        /\ RejectedWith(calls[c].defStatus, DataLossError)
        /\ RejectedWith(calls[c].defTrailer, DataLossError)

\* C3: a client-streaming `status` event with code OK delivered while message is
\* pending (status and trailer pending too) rejects message, status and trailer
\* with one DATA_LOSS error and never resolves status as a success.
C3_ClientStreamingDataLoss ==
    [][\A c \in CallIds :
          (/\ Ran(c, "status")
           /\ calls[c].shape = "clientStreaming"
           /\ lastEvent'.code = GrpcStatus_OK
           /\ calls[c].defMessage.state = "PENDING"
           /\ calls[c].defStatus.state = "PENDING")
          => /\ calls'[c].defMessage.state = "REJECTED"
             /\ calls'[c].defMessage.reason[1].code = "DATA_LOSS"
             /\ calls'[c].defStatus = calls'[c].defMessage
             /\ calls'[c].defTrailer = calls'[c].defMessage]_vars

\* The RpcError a completion callback builds from the err of this step.
IsClassified(e) == e.message = lastEvent'.msg /\ e.code = GrpcStatus(lastEvent'.code)

\* d was pending and is rejected with e, or was settled and is unchanged.
RejectedIfPending(d, dNext, e) ==
    IF Settled(d) THEN dNext = d ELSE RejectedWith(dNext, e)

\* C4: when the unary completion callback supplies an error, each of header,
\* message, status and trailer that is pending becomes rejected with one and the
\* same classified error, and each one already settled keeps its outcome.
C4_CallbackErrorRejectsPending ==
    [][\A c \in CallIds :
          (Ran(c, "callbackError") /\ calls[c].shape = "unary")
          => \E e \in {RpcError(x.message, GrpcStatus(x.code), grpcMetaToRpc(x.metadata)) :
                         x \in CallbackErrors} :
                /\ IsClassified(e)
                /\ RejectedIfPending(calls[c].defHeader, calls'[c].defHeader, e)
                /\ RejectedIfPending(calls[c].defMessage, calls'[c].defMessage, e)
                /\ RejectedIfPending(calls[c].defStatus, calls'[c].defStatus, e)
                /\ RejectedIfPending(calls[c].defTrailer, calls'[c].defTrailer, e)]_vars

\* C4 witness: an error callback on a call where nothing was settled: all four
\* are rejected with the same error.
C4_Witness ==
    \E c \in CallIds :
        /\ calls[c].shape = "unary"
        /\ lastEvent.kind = "callbackError"
        /\ lastEvent.call = c
        /\ ~calls[c].metaSeen
        /\ calls[c].nStatus = 0
        /\ calls[c].defHeader.state = "REJECTED"
        /\ calls[c].defHeader.reason[1].code = "UNAVAILABLE"
        /\ calls[c].defMessage = calls[c].defHeader
        /\ calls[c].defStatus = calls[c].defHeader
        /\ calls[c].defTrailer = calls[c].defHeader

\* Each Deferred of call c that was settled before this step is unchanged by it.
OneWay(c) ==
    /\ Settled(calls[c].defHeader) => calls'[c].defHeader = calls[c].defHeader
    /\ Settled(calls[c].defMessage) => calls'[c].defMessage = calls[c].defMessage
    /\ Settled(calls[c].defStatus) => calls'[c].defStatus = calls[c].defStatus
    /\ Settled(calls[c].defTrailer) => calls'[c].defTrailer = calls[c].defTrailer

\* C5 as stated: every Deferred is settled at most once and then keeps its state
\* and value, and a second `status` event on a call changes no Deferred.
C5_Original ==
    [][\A c \in CallIds :
          /\ OneWay(c)
          /\ (Ran(c, "status") /\ calls[c].nStatus >= 1)
             => /\ calls'[c].defHeader = calls[c].defHeader
                /\ calls'[c].defMessage = calls[c].defMessage
                /\ calls'[c].defStatus = calls[c].defStatus
                /\ calls'[c].defTrailer = calls[c].defTrailer]_vars

\* C5 amended: every Deferred is settled at most once and then keeps its state and
\* value; a second `status` event changes neither header, status nor trailer, and
\* changes message only in a unary call, when its code is OK and message is still
\* pending: message is then rejected with the DATA_LOSS error.
C5_Amended ==
    [][\A c \in CallIds :
          /\ OneWay(c)
          /\ (Ran(c, "status") /\ calls[c].nStatus >= 1)
             => /\ calls'[c].defHeader = calls[c].defHeader
                /\ calls'[c].defStatus = calls[c].defStatus
                /\ calls'[c].defTrailer = calls[c].defTrailer
                /\ \/ calls'[c].defMessage = calls[c].defMessage
                   \/ /\ calls[c].shape = "unary"
                      /\ lastEvent'.code = GrpcStatus_OK
                      /\ calls[c].defMessage.state = "PENDING"
                      /\ RejectedWith(calls'[c].defMessage, DataLossError)]_vars

\* C5 witness: two `status` events were delivered to a call whose status is settled.
C5_Witness ==
    \E c \in CallIds :
        /\ lastEvent.kind = "status"
        /\ lastEvent.call = c
        /\ calls[c].nStatus = 2
        /\ calls[c].defStatus.state = "RESOLVED"
        /\ calls[c].defStatus.value[1].code = "NOT_FOUND"
        /\ calls[c].defTrailer.state = "RESOLVED"


\* C6: a `metadata` event delivered when the header Deferred is already settled
\* is a silent no-op in every call shape: the listener raises no failure and the
\* header keeps its first outcome.
C6_MetadataNoOp ==
    [][\A c \in CallIds :
          (Ran(c, "metadata") /\ Settled(calls[c].defHeader))
          => /\ calls'[c].defHeader = calls[c].defHeader
             /\ threw' = FALSE]_vars

\* C7: in a server-streaming call every `data` event delivered while the stream
\* is open appends its payload to the stream and nothing else pushes, so the open
\* stream holds exactly the payloads delivered, in order; an `end` event on the
\* open stream completes it normally with those items, whatever status is.
C7_DataInOrder ==
    [][\A c \in CallIds :
          calls[c].shape = "serverStreaming"
          => /\ (Ran(c, "data") /\ ~StreamClosed(calls[c].outStream))
                => /\ calls'[c].outStream.items = Append(calls[c].outStream.items, lastEvent'.msg)
                   /\ calls'[c].outStream.closed = "open"
                   /\ threw' = FALSE
             /\ (Ran(c, "end") /\ ~StreamClosed(calls[c].outStream))
                => /\ calls'[c].outStream.items = calls[c].outStream.items
                   /\ calls'[c].outStream.closed = "complete"
                   /\ threw' = FALSE
             /\ ~Ran(c, "data") => calls'[c].outStream.items = calls[c].outStream.items
             /\ ~StreamClosed(calls'[c].outStream)
                => calls'[c].outStream.items = calls'[c].dataLog]_vars

\* C7 witness: data(A), data(B), end and no `status` event: the stream holds
\* [A, B] and is completed.
C7_Witness ==
    \E c \in CallIds :
        /\ calls[c].shape = "serverStreaming"
        /\ lastEvent = Ev(c, "end", -1, "")
        /\ calls[c].dataLog = <<"A", "B">>
        /\ calls[c].outStream.items = <<"A", "B">>
        /\ calls[c].outStream.closed = "complete"
        /\ calls[c].nStatus = 0
        /\ calls[c].defStatus.state = "PENDING"

\* C8: once the output stream of a server-streaming call is closed it never
\* changes again, and an `end` or `error` event delivered then notifies nothing
\* and raises no failure; an open stream closes to complete or to error.
C8_StreamTerminalOnce ==
    [][\A c \in CallIds :
          calls[c].shape = "serverStreaming"
          => /\ StreamClosed(calls[c].outStream)
                => /\ calls'[c].outStream = calls[c].outStream
                   /\ (Ran(c, "end") \/ Ran(c, "error")) => threw' = FALSE
             /\ calls'[c].outStream.closed \in {"open", "complete", "error"}
             /\ (calls'[c].outStream.closed = "error") = (calls'[c].outStream.err # <<>>)]_vars

\* C8 witness: an `end` event delivered after an `error` event closed the stream.
C8_Witness ==
    \E c \in CallIds :
        /\ calls[c].shape = "serverStreaming"
        /\ lastEvent = Ev(c, "end", -1, "")
        /\ calls[c].outStream.closed = "error"
        /\ threw = FALSE

\* C9: a `data` event delivered after `end` or `error` closed the stream is not
\* pushed, raises no failure and leaves the items and the terminal outcome of the
\* stream unchanged.
C9_DataAfterCloseIgnored ==
    [][\A c \in CallIds :
          (/\ Ran(c, "data")
           /\ calls[c].shape = "serverStreaming"
           /\ StreamClosed(calls[c].outStream))
          => /\ calls'[c].outStream = calls[c].outStream
             /\ threw' = FALSE]_vars

\* C10 as stated: header settles at most once, and whenever status is settled
\* header is settled too (it was settled before status).
C10_Original ==
    [][\A c \in CallIds :
          /\ Settled(calls[c].defHeader) => calls'[c].defHeader = calls[c].defHeader
          /\ Settled(calls'[c].defStatus) => Settled(calls'[c].defHeader)]_vars

\* C10 amended: header settles at most once; once a `metadata` event was
\* delivered header is settled; and a step settles status while header is still
\* pending only when it is a `status` event that no `metadata` event preceded.
C10_Amended ==
    [][\A c \in CallIds :
          /\ Settled(calls[c].defHeader) => calls'[c].defHeader = calls[c].defHeader
          /\ calls'[c].metaSeen => Settled(calls'[c].defHeader)
          /\ (~Settled(calls[c].defStatus) /\ Settled(calls'[c].defStatus))
             => \/ Settled(calls'[c].defHeader)
                \/ Ran(c, "status") /\ ~calls[c].metaSeen]_vars

\* C10 witness: `metadata` then `status`: header was resolved when status settled.
C10_Witness ==
    \E c \in CallIds :
        /\ lastEvent.kind = "status"
        /\ lastEvent.call = c
        /\ calls[c].metaSeen
        /\ calls[c].nStatus = 1
        /\ calls[c].defHeader.state = "RESOLVED"
        /\ calls[c].defStatus.state = "RESOLVED"


\* The results of call c (header, message, stream, status, trailer) are unchanged by this step.
ResultsUnchanged(c) ==
    /\ calls'[c].defHeader = calls[c].defHeader
    /\ calls'[c].defMessage = calls[c].defMessage
    /\ calls'[c].defStatus = calls[c].defStatus
    /\ calls'[c].defTrailer = calls[c].defTrailer
    /\ calls'[c].outStream = calls[c].outStream

\* This step rejects a Deferred of call c, or closes its stream with an error.
RejectsSomething(c) ==
    \/ ~Settled(calls[c].defHeader) /\ calls'[c].defHeader.state = "REJECTED"
    \/ ~Settled(calls[c].defMessage) /\ calls'[c].defMessage.state = "REJECTED"
    \/ ~Settled(calls[c].defStatus) /\ calls'[c].defStatus.state = "REJECTED"
    \/ ~Settled(calls[c].defTrailer) /\ calls'[c].defTrailer.state = "REJECTED"
    \/ ~StreamClosed(calls[c].outStream) /\ calls'[c].outStream.closed = "error"

\* C11 as stated: the abort listener only requests cancel() and leaves header,
\* message/stream, status and trailer unchanged; cancel() is requested only when
\* an abort signal was supplied; and after the abort they are rejected only by
\* an `error` event or an error completion callback.
C11_Original ==
    [][\A c \in CallIds :
          /\ Ran(c, "abort")
             => /\ ResultsUnchanged(c)
                /\ calls'[c].cancelRequested
                /\ threw' = FALSE
          /\ calls'[c].cancelRequested => calls'[c].hasAbort
          /\ (calls[c].cancelRequested /\ RejectsSomething(c))
             => Ran(c, "error") \/ Ran(c, "callbackError")]_vars

\* C11 amended: as stated, except that after the abort a unary call's message,
\* status and trailer are also rejected by a `status` event with code OK that
\* finds message pending (the DATA_LOSS error).
C11_Amended ==
    [][\A c \in CallIds :
          /\ Ran(c, "abort")
             => /\ ResultsUnchanged(c)
                /\ calls'[c].cancelRequested
                /\ threw' = FALSE
          /\ calls'[c].cancelRequested => calls'[c].hasAbort
          /\ (calls[c].cancelRequested /\ RejectsSomething(c))
             => \/ Ran(c, "error")
                \/ Ran(c, "callbackError")
                \/ /\ Ran(c, "status")
                   /\ calls[c].shape = "unary"
                   /\ lastEvent'.code = GrpcStatus_OK
                   /\ calls[c].defMessage.state = "PENDING"]_vars

\* C11 witness: the abort signal of a unary call fired: cancel() is requested and
\* all four Deferreds are still pending.
C11_Witness ==
    \E c \in CallIds :
        /\ calls[c].shape = "unary"
        /\ lastEvent = Ev(c, "abort", -1, "")
        /\ calls[c].cancelRequested
        /\ ~Settled(calls[c].defHeader)
        /\ ~Settled(calls[c].defMessage)
        /\ ~Settled(calls[c].defStatus)
        /\ ~Settled(calls[c].defTrailer)


\* C12: invoking duplex fails at once, whatever the options, and has no side
\* effect: no object of any call exists or changes afterwards.
C12_DuplexNotImplemented ==
    [][\A c \in CallIds :
          Ran(c, "duplex") => (threw' = TRUE /\ calls' = calls)]_vars

\* C12 witness: duplex was invoked: it failed and the call has no objects.
C12_Witness ==
    \E c \in CallIds :
        /\ lastEvent = Ev(c, "duplex", -1, "")
        /\ threw = TRUE
        /\ calls[c] = NoCall


\* C13: with several calls in flight, an operation on one call changes only that
\* call's Deferreds, stream and handle: every other call is unchanged.
C13_CallsIsolated ==
    [][\A c \in CallIds : \A d \in CallIds :
          (lastEvent'.call = c /\ d # c) => calls'[d] = calls[d]]_vars

\* C13 witness: the events of a unary call and of a server-streaming call
\* interleaved, and each call holds its own outcome.
C13_Witness ==
    /\ calls["c1"].shape = "unary"
    /\ calls["c2"].shape = "serverStreaming"
    /\ lastEvent.call = "c1"
    /\ lastEvent.kind = "callbackValue"
    /\ calls["c1"].defMessage.state = "RESOLVED"
    /\ calls["c1"].defStatus.state = "RESOLVED"
    /\ calls["c2"].defStatus.state = "REJECTED"
    /\ calls["c2"].outStream.closed = "error"


\* C14 as stated: encoding a metadata mapping with rpcMetaToGrpc and decoding the
\* result with grpcMetaToRpc yields the original mapping, a single string coming
\* back as that string and a collection with the same elements in the same order.
C14_Original == codec.stage = "decoded" => codec.back = codec.from

\* C14 amended: for a mapping whose header names are lower-case, the round trip
\* yields the same header names, and every value comes back as the collection of
\* its strings in the same order: a single string as a one-element collection.
C14_Amended ==
    (codec.stage = "decoded" /\ \A k \in DOMAIN codec.from : normalizeKey(k) = k)
    => /\ DOMAIN codec.back = DOMAIN codec.from
       /\ \A k \in DOMAIN codec.from :
             /\ codec.back[k].isList
             /\ codec.back[k].items = codec.from[k].items

\* C14 witness: a mapping with a single string and a two-element collection went
\* through both translations.
C14_Witness ==
    /\ codec.stage = "decoded"
    /\ DOMAIN codec.from = {"x-id", "k"}
    /\ codec.from["x-id"] = [isList |-> FALSE, items |-> <<"1">>]
    /\ codec.from["k"] = [isList |-> TRUE, items |-> <<"2", "1">>]
    /\ codec.back["x-id"] = [isList |-> TRUE, items |-> <<"1">>]
    /\ codec.back["k"] = [isList |-> TRUE, items |-> <<"2", "1">>]

\* The error a stream `error` event of the given message is classified as: the
\* service error keeps its message, code name and metadata, any other error is
\* UNKNOWN with no metadata.
StreamErrorFor(msg) ==
    IF msg = "cancelled"
    THEN RpcError("cancelled", "CANCELLED", [k \in {"x-id"} |-> [isList |-> TRUE, items |-> <<"1">>]])
    ELSE RpcError(msg, "UNKNOWN", EmptyRpcMeta)

\* C15: in a server-streaming call an `error` event rejects the header if it is
\* pending, closes the output stream with the error if it is open, and rejects
\* status and trailer if they are pending, all with the same classified error;
\* what was settled or closed before keeps its outcome.
C15_ErrorRejectsPending ==
    [][\A c \in CallIds :
          (Ran(c, "error") /\ calls[c].shape = "serverStreaming")
          => LET e == StreamErrorFor(lastEvent'.msg)
             IN  /\ RejectedIfPending(calls[c].defHeader, calls'[c].defHeader, e)
                 /\ RejectedIfPending(calls[c].defStatus, calls'[c].defStatus, e)
                 /\ RejectedIfPending(calls[c].defTrailer, calls'[c].defTrailer, e)
                 /\ IF calls[c].outStream.closed # "open"
                    THEN calls'[c].outStream = calls[c].outStream
                    ELSE /\ calls'[c].outStream.closed = "error"
                         /\ calls'[c].outStream.err = <<e>>
                         /\ calls'[c].outStream.items = calls[c].outStream.items
                 /\ threw' = FALSE]_vars

\* C15 witness: the header was resolved before the service error came, which
\* closed the stream and rejected status and trailer.
C15_Witness ==
    \E c \in CallIds :
        /\ calls[c].shape = "serverStreaming"
        /\ lastEvent = Ev(c, "error", 1, "cancelled")
        /\ calls[c].defHeader.state = "RESOLVED"
        /\ calls[c].outStream.closed = "error"
        /\ calls[c].outStream.err = <<StreamErrorFor("cancelled")>>
        /\ RejectedWith(calls[c].defStatus, StreamErrorFor("cancelled"))
        /\ RejectedWith(calls[c].defTrailer, StreamErrorFor("cancelled"))

\* C16: in a server-streaming call `end` changes only the stream state, from open
\* to complete, and leaves header, status and trailer alone; `status` resolves
\* status and trailer when they are pending, whatever data came before and
\* whatever the code, and leaves the stream alone; `end` and `status` commute.
C16_EndStatusIndependent ==
    [][\A c \in CallIds :
          calls[c].shape = "serverStreaming"
          => /\ Ran(c, "end")
                => /\ calls'[c].defHeader = calls[c].defHeader
                   /\ calls'[c].defStatus = calls[c].defStatus
                   /\ calls'[c].defTrailer = calls[c].defTrailer
                   /\ calls'[c].outStream.items = calls[c].outStream.items
                   /\ calls'[c].outStream.err = calls[c].outStream.err
                   /\ calls'[c].outStream.closed =
                         IF calls[c].outStream.closed = "open" THEN "complete"
                         ELSE calls[c].outStream.closed
             /\ Ran(c, "status")
                => /\ calls'[c].outStream = calls[c].outStream
                   /\ calls'[c].defHeader = calls[c].defHeader
                   /\ ~Settled(calls[c].defStatus)
                      => /\ calls'[c].defStatus.state = "RESOLVED"
                         /\ calls'[c].defStatus.value =
                               <<[code |-> GrpcStatus(lastEvent'.code), detail |-> lastEvent'.msg]>>
                   /\ ~Settled(calls[c].defTrailer) => calls'[c].defTrailer.state = "RESOLVED"
                   /\ Settled(calls[c].defStatus) => calls'[c].defStatus = calls[c].defStatus
                   /\ Settled(calls[c].defTrailer) => calls'[c].defTrailer = calls[c].defTrailer
             /\ \A val \in StatusVals :
                   serverStreamingOnStatus(serverStreamingOnEnd(calls[c]).call, val)
                   = serverStreamingOnEnd(serverStreamingOnStatus(calls[c], val).call)]_vars

\* C16 witness: status OK came before any data and was resolved, then `end`
\* closed the empty stream.
C16_Witness ==
    \E c \in CallIds :
        /\ calls[c].shape = "serverStreaming"
        /\ lastEvent = Ev(c, "end", -1, "")
        /\ calls[c].dataLog = <<>>
        /\ calls[c].outStream = [NewOutStream EXCEPT !.closed = "complete"]
        /\ calls[c].defStatus.state = "RESOLVED"
        /\ calls[c].defStatus.value = <<[code |-> "OK", detail |-> ""]>>
        /\ calls[c].defTrailer.state = "RESOLVED"
        /\ calls[c].nStatus = 1

\* C17: in a unary call whose message was rejected with the DATA_LOSS error by
\* an earlier status OK, a completion callback that delivers a payload is
\* silently ignored: no failure is raised, and message, status and trailer keep
\* the DATA_LOSS rejection.
C17_LateValueIgnored ==
    [][\A c \in CallIds :
          (/\ Ran(c, "callbackValue")
           /\ calls[c].shape = "unary"
           /\ RejectedWith(calls[c].defMessage, DataLossError))
          => /\ threw' = FALSE
             /\ calls'[c].defMessage = calls[c].defMessage
             /\ calls'[c].defStatus = calls[c].defStatus
             /\ calls'[c].defTrailer = calls[c].defTrailer]_vars

\* C18: in a client-streaming call send(m) hands m to the channel's write and
\* returns a pending promise, which is resolved only by the channel's
\* acknowledgement of that write and is never rejected; complete() calls the
\* channel's end() once and returns a resolved promise whatever sends are
\* outstanding; neither changes the header, message, status or trailer Deferred.
C18_InputStreamAdapter ==
    [][\A c \in CallIds :
          LET s == inStream[c]
              t == inStream'[c]
          IN  /\ Ran(c, "send")
                 => /\ t.written = Append(s.written, lastEvent'.msg)
                    /\ t.sendPromises = Append(s.sendPromises, "PENDING")
                    /\ t.nEnd = s.nEnd
                    /\ t.completePromises = s.completePromises
                    /\ ResultsUnchanged(c)
              /\ Ran(c, "complete")
                 => /\ t.nEnd = s.nEnd + 1
                    /\ t.completePromises = Append(s.completePromises, "RESOLVED")
                    /\ t.written = s.written
                    /\ t.sendPromises = s.sendPromises
                    /\ ResultsUnchanged(c)
              /\ \A i \in 1..Len(s.sendPromises) :
                    /\ t.sendPromises[i] \in {"PENDING", "RESOLVED"}
                    /\ t.sendPromises[i] # s.sendPromises[i]
                       => Ran(c, "writeAck") /\ lastEvent'.code = i]_vars

\* C18 witness: a message was sent and the channel has not acknowledged it, and
\* complete() ended the channel's write side while that send is outstanding; no
\* Deferred of the call is settled.
C18_Witness ==
    \E c \in CallIds :
        /\ calls[c].shape = "clientStreaming"
        /\ lastEvent = Ev(c, "complete", -1, "")
        /\ inStream[c] = [written |-> <<"B">>, sendPromises |-> <<"PENDING">>,
                          nEnd |-> 1, completePromises |-> <<"RESOLVED">>]
        /\ ~Settled(calls[c].defHeader) /\ ~Settled(calls[c].defMessage)
        /\ ~Settled(calls[c].defStatus) /\ ~Settled(calls[c].defTrailer)

\* C19: in a unary call the message is settled after any completion callback,
\* status and trailer are settled after any `status` event, and what is settled
\* stays settled, so after both, in either order, none of the three is pending;
\* the header leaves the pending state only on a `metadata` event or an error
\* completion callback, so it stays pending on a call that succeeds without one.
C19_UnarySettlesAll ==
    [][\A c \in CallIds :
          calls[c].shape = "unary"
          => /\ (Ran(c, "callbackValue") \/ Ran(c, "callbackError"))
                => Settled(calls'[c].defMessage)
             /\ Ran(c, "status")
                => Settled(calls'[c].defStatus) /\ Settled(calls'[c].defTrailer)
             /\ Settled(calls[c].defMessage) => Settled(calls'[c].defMessage)
             /\ Settled(calls[c].defStatus) => Settled(calls'[c].defStatus)
             /\ Settled(calls[c].defTrailer) => Settled(calls'[c].defTrailer)
             /\ (~Settled(calls[c].defHeader) /\ Settled(calls'[c].defHeader))
                => Ran(c, "metadata") \/ Ran(c, "callbackError")]_vars

\* C19 witness: the callback delivered a payload, then status OK came; message,
\* status and trailer are resolved and the header, with no `metadata` event, is
\* pending.
C19_Witness ==
    \E c \in CallIds :
        /\ calls[c].shape = "unary"
        /\ lastEvent = Ev(c, "status", 0, "")
        /\ calls[c].defMessage.state = "RESOLVED"
        /\ calls[c].defStatus.value = <<[code |-> "OK", detail |-> ""]>>
        /\ calls[c].defTrailer.state = "RESOLVED"
        /\ calls[c].defHeader.state = "PENDING"
        /\ ~calls[c].metaSeen
        /\ calls[c].nStatus = 1

\* In a unary call the message leaves the pending state only on a completion
\* callback, or on a status OK that rejects it with the DATA_LOSS error.
MessageSettledByCallbackOnly(c) ==
    (~Settled(calls[c].defMessage) /\ Settled(calls'[c].defMessage))
    => \/ Ran(c, "callbackValue")
       \/ Ran(c, "callbackError")
       \/ /\ Ran(c, "status")
          /\ lastEvent'.code = GrpcStatus_OK
          /\ RejectedWith(calls'[c].defMessage, DataLossError)

\* C20 as stated: in a unary call a `status` event whose code is not OK, coming
\* while the message is pending, resolves status with that code name and detail
\* and resolves trailer, and leaves message and header unchanged; apart from the
\* DATA_LOSS case the message is settled only by the completion callback.
C20_Original ==
    [][\A c \in CallIds :
          calls[c].shape = "unary"
          => /\ (/\ Ran(c, "status")
                 /\ lastEvent'.code # GrpcStatus_OK
                 /\ ~Settled(calls[c].defMessage))
                => /\ calls'[c].defStatus.state = "RESOLVED"
                   /\ calls'[c].defStatus.value =
                         <<[code |-> GrpcStatus(lastEvent'.code), detail |-> lastEvent'.msg]>>
                   /\ calls'[c].defTrailer.state = "RESOLVED"
                   /\ calls'[c].defMessage = calls[c].defMessage
                   /\ calls'[c].defHeader = calls[c].defHeader
             /\ MessageSettledByCallbackOnly(c)]_vars

\* C20 amended: the same, for a `status` event that finds status and trailer
\* pending; a `status` event that finds them settled leaves them, and message
\* and header, as they are.
C20_Amended ==
    [][\A c \in CallIds :
          calls[c].shape = "unary"
          => /\ (/\ Ran(c, "status")
                 /\ lastEvent'.code # GrpcStatus_OK
                 /\ ~Settled(calls[c].defMessage))
                => /\ calls'[c].defMessage = calls[c].defMessage
                   /\ calls'[c].defHeader = calls[c].defHeader
                   /\ IF ~Settled(calls[c].defStatus) /\ ~Settled(calls[c].defTrailer)
                      THEN /\ calls'[c].defStatus.state = "RESOLVED"
                           /\ calls'[c].defStatus.value =
                                 <<[code |-> GrpcStatus(lastEvent'.code),
                                    detail |-> lastEvent'.msg]>>
                           /\ calls'[c].defTrailer.state = "RESOLVED"
                      ELSE /\ calls'[c].defStatus = calls[c].defStatus
                           /\ calls'[c].defTrailer = calls[c].defTrailer
             /\ MessageSettledByCallbackOnly(c)]_vars

\* C20 witness: the first event of a unary call is status UNAVAILABLE: status
\* and trailer are resolved, message and header are pending.
C20_Witness ==
    \E c \in CallIds :
        /\ calls[c].shape = "unary"
        /\ lastEvent = Ev(c, "status", 14, "unavailable")
        /\ calls[c].nStatus = 1
        /\ calls[c].defStatus.state = "RESOLVED"
        /\ calls[c].defStatus.value = <<[code |-> "UNAVAILABLE", detail |-> "unavailable"]>>
        /\ calls[c].defTrailer.state = "RESOLVED"
        /\ calls[c].defMessage.state = "PENDING"
        /\ calls[c].defHeader.state = "PENDING"

====
